---- MODULE Spec2Model ----
(***************************************************************************)
(* Black-hole light-ray visualisation (mab8192/black-hole-vis).            *)
(*                                                                         *)
(* The geodesic revision of the program (BlackHole, LightRay, Simulation   *)
(* with LightRay::Update(dt, r_s)) is modelled together with its Run loop  *)
(* and Draw; Simulation::Init of src/main.cpp is modelled as its own       *)
(* statement-level process.                                                *)
(*                                                                         *)
(* Numbers.  A double is a fixed-point integer counting 1/FP, a float is a *)
(* double rounded to the coarser grid FLT/FP.  Units are chosen so that    *)
(* the speed of light is 1.00 length unit per time unit and one pixel is   *)
(* 2.00 length units (VIS_SCALE = 0.50).  Every arithmetic step of the     *)
(* source is kept, in the source's order, on these numbers.                *)
(***************************************************************************)
EXTENDS Integers, Sequences, FiniteSets, TLC

FP  == 100      \* one double unit = 1/100
FLT == 25       \* one float unit  = 25/100

Abs(x) == IF x < 0 THEN -x ELSE x
Sgn(x) == IF x < 0 THEN -1 ELSE IF x > 0 THEN 1 ELSE 0

\* double * double
FMul(a, b) ==
    LET s == Sgn(a) * Sgn(b)
        x == Abs(a)
        y == Abs(b)
    IN  s * ((x \div FP) * y + ((x % FP) * y) \div FP)

\* double / double; IEEE division by zero does not trap, the model gives 0
FDiv(a, b) ==
    IF b = 0 THEN 0
    ELSE LET s == Sgn(a) * Sgn(b)
             x == Abs(a)
             y == Abs(b)
         IN  s * ((x \div y) * FP + ((x % y) * FP) \div y)

\* static_cast<float>(double): round to the float grid
ToFloat(x) == Sgn(x) * (((Abs(x) + FLT \div 2) \div FLT) * FLT)

\* float * float, rounded to float
FlMul(a, b) == ToFloat(FMul(a, b))

\* the square root of s, started from a bound b >= sqrt(s) that is at most 1.5 sqrt(s)
SqrtFrom(s, b) ==
    IF s <= 0 THEN 0
    ELSE LET Newton(a) == (a + s \div a) \div 2
             a4 == Newton(Newton(Newton(Newton(b))))
         IN  IF a4 * a4 > s THEN a4 - 1
             ELSE IF (a4 + 1) * (a4 + 1) <= s THEN a4 + 1
             ELSE a4

\* hypot(x, y) on fixed-point numbers
Hypot(x, y) == SqrtFrom(x * x + y * y, Abs(x) + Abs(y))

(***************************************************************************)
(* cos, sin, atan2: a table of NA directions, 15 degrees apart.            *)
(***************************************************************************)
NA == 24
CosTable == <<100, 97, 87, 71, 50, 26, 0, -26, -50, -71, -87, -97,
              -100, -97, -87, -71, -50, -26, 0, 26, 50, 71, 87, 97>>

\* index of the table direction nearest to the angle phi (radians, fixed point)
Quant(phi) == ((phi * 100 + 1309) \div 2618) % NA

Cos(phi) == CosTable[Quant(phi) + 1]
Sin(phi) == CosTable[((Quant(phi) + NA - NA \div 4) % NA) + 1]

\* angle of table direction k, k in -(NA/2 - 1) .. NA/2, in radians
AngleOf(k) == Sgn(k) * ((Abs(k) * 2618 + 50) \div 100)

\* 1000 tan of the angles half way between the table directions of a quadrant
TanTable == <<132, 414, 767, 1303, 2414, 7596>>

\* atan2(y, x): the angle of the table direction nearest to (x, y); atan2(0, 0) = 0
Atan2(y, x) ==
    LET ax == Abs(x)
        ay == Abs(y)
        k == Cardinality({i \in 1..Len(TanTable) : ay * 1000 > ax * TanTable[i]})
    IN  IF x = 0 /\ y = 0 THEN 0
        ELSE IF x >= 0 THEN (IF y >= 0 THEN AngleOf(k) ELSE AngleOf(-k))
        ELSE (IF y >= 0 THEN AngleOf(NA \div 2 - k) ELSE AngleOf(k - NA \div 2))

\* raymath Vector2Normalize: v / |v|, the zero vector is returned unchanged
Vector2Normalize(v) ==
    LET length == Hypot(v[1], v[2])
    IN  IF length > 0 THEN <<ToFloat(FDiv(v[1], length)), ToFloat(FDiv(v[2], length))>>
        ELSE v

c == 100                 \* speed of light, 1.00
G == 100                 \* gravitational constant, 1.00
VIS_SCALE == 50          \* pixels per length unit, 0.50
TIME_MULTIPLIER == 100

SagAMass == 200          \* mass handed to the BlackHole constructor, 2.00

(***************************************************************************)
(* Bounds and input sets.                                                  *)
(***************************************************************************)
MaxFrames == 3           \* frames the Run loop is followed for
MaxCoord == 2            \* light rays are constructed within MaxCoord pixels
MaxDrawPoints == 260     \* longest path handed to Draw on its own
MaxHeight == 45          \* largest screen height handed to Init
MaxSeedRays == 24        \* Init's loop is followed up to this many rays

Masses == {0, 100, SagAMass}
\* whole pixels, on and above the axis through the black hole
StartPositions == {<<x * FP, y * FP>> : x \in -MaxCoord..MaxCoord, y \in 0..MaxCoord}
StartDirections == {<<FP, 0>>, <<0, FP>>, <<-FP, 0>>, <<0, -FP>>}
FrameTimes == {0, 1, 3}       \* GetFrameTime(), in 1/100 s
Conversions == {"wrap", "saturate"}
Widths == {16}

VARIABLES
    blackHole,   \* Simulation::blackHole
    lr,          \* Simulation::lightRays, the one ray the constructor emplaces
    pos0,        \* the position lr was constructed with
    nlive,       \* Update calls so far that started with 0 < radius and r_s <= radius
    upd,         \* the last LightRay::Update call: branch taken, locals dr_dt, dphi_dt
    pc,          \* Run: statements of the loop body executed in the current frame
    closed,      \* Run: WindowShouldClose() was observed true, the loop has ended
    frame,       \* Run: Update calls made
    calls,       \* Run: the calls made so far, in order
    conv,        \* how this build converts a negative float to unsigned char
    shades,      \* the grey levels the last Draw gave to the segments of lr.path
    blackHoles,  \* main.cpp Simulation::blackHoles
    lightRays,   \* main.cpp Simulation::lightRays
    seed         \* main.cpp Simulation::Init: arguments, locals and position

vars == <<blackHole, lr, pos0, nlive, upd, pc, closed, frame, calls, conv, shades,
          blackHoles, lightRays, seed>>
runVars == <<blackHole, lr, pos0, nlive, upd, pc, closed, frame, calls, conv, shades>>
seedVars == <<blackHoles, lightRays, seed>>

(***************************************************************************)
(* BlackHole and LightRay.                                                 *)
(***************************************************************************)
BlackHole(position, m) ==
    [pos |-> position, mass |-> m, r_s |-> FDiv(2 * FMul(G, m), FMul(c, c))]

\* a push_back that inserts at the front
PushBack_Front(path, p) == <<p>> \o path

\* std::vector::push_back
PushBack(path, p) == Append(path, p)

LightRay(position, direction) ==
    [pos |-> position, dir |-> direction,
     r |-> FDiv(Hypot(position[1], position[2]), VIS_SCALE),
     phi |-> Atan2(position[2], position[1]),
     dr |-> 0, dphi |-> 0,
     path |-> PushBack(<<>>, position)]

\* r = hypot(pos.x, pos.y) / VIS_SCALE
Radius(l) == FDiv(Hypot(l.pos[1], l.pos[2]), VIS_SCALE)

\* phi = atan2(pos.y, pos.x)
Angle(l) == Atan2(l.pos[2], l.pos[1])

\* the locals dr_dt, dphi_dt as first assigned: dir decomposed along r_hat, phi_hat
PolarVelocity(l) ==
    LET r == Radius(l)
        phi == Angle(l)
        r_hat == <<ToFloat(Cos(phi)), ToFloat(Sin(phi))>>
        phi_hat == <<ToFloat(-Sin(phi)), ToFloat(Cos(phi))>>
        v_r == FMul(ToFloat(FlMul(l.dir[1], r_hat[1]) + FlMul(l.dir[2], r_hat[2])), c)
        v_phi == FMul(ToFloat(FlMul(l.dir[1], phi_hat[1]) + FlMul(l.dir[2], phi_hat[2])), c)
    IN  [dr_dt |-> v_r, dphi_dt |-> FDiv(v_phi, r)]

\* one forward-Euler step of the Schwarzschild light geodesic
Geodesic(r, phi, v, dt, r_s) ==
    LET L == FDiv(FMul(FMul(r, r), v.dphi_dt), c)
        r2 == FMul(r, r)
        r3 == FMul(r2, r)
        r4 == FMul(r3, r)
        c2 == FMul(c, c)
        d2r_dt2 == (0 - FDiv(FMul(r_s, c2), 2 * r2))
                   + FDiv(FMul(FMul(L, L), c2), r3)
                   - FDiv(FMul(FMul(FMul(3 * r_s, L), L), c2), 2 * r4)
        d2phi_dt2 == FMul(FMul(FDiv(-2 * FP, r), v.dr_dt), v.dphi_dt)
        dr_dt == v.dr_dt + FMul(d2r_dt2, dt)
        dphi_dt == v.dphi_dt + FMul(d2phi_dt2, dt)
    IN  [r |-> r + FMul(dr_dt, dt), phi |-> phi + FMul(dphi_dt, dt),
         dr_dt |-> dr_dt, dphi_dt |-> dphi_dt]

\* the Cartesian position and the velocity that a live step arrives at
NewPos(g) ==
    <<ToFloat(FMul(FMul(g.r, Cos(g.phi)), VIS_SCALE)),
      ToFloat(FMul(FMul(g.r, Sin(g.phi)), VIS_SCALE))>>

VelocityCart(g) ==
    LET new_r_hat == <<ToFloat(Cos(g.phi)), ToFloat(Sin(g.phi))>>
        new_phi_hat == <<ToFloat(-Sin(g.phi)), ToFloat(Cos(g.phi))>>
    IN  <<ToFloat(FMul(g.dr_dt, new_r_hat[1]) + FMul(FMul(g.r, g.dphi_dt), new_phi_hat[1])),
          ToFloat(FMul(g.dr_dt, new_r_hat[2]) + FMul(FMul(g.r, g.dphi_dt), new_phi_hat[2]))>>

\* a live step that pushes the position before moving
LiveStep_PushOld(l, dt, r_s) ==
    LET g == Geodesic(Radius(l), Angle(l), PolarVelocity(l), dt, r_s)
    IN  [l EXCEPT !.r = g.r, !.phi = g.phi, !.pos = NewPos(g),
                  !.dir = Vector2Normalize(VelocityCart(g)),
                  !.path = PushBack(l.path, l.pos)]

\* a live step that keeps its final velocity in the fields dr, dphi
LiveStep_StoreVelocity(l, dt, r_s) ==
    LET g == Geodesic(Radius(l), Angle(l), PolarVelocity(l), dt, r_s)
    IN  [l EXCEPT !.r = g.r, !.phi = g.phi, !.pos = NewPos(g),
                  !.dr = g.dr_dt, !.dphi = g.dphi_dt,
                  !.dir = Vector2Normalize(VelocityCart(g)),
                  !.path = PushBack(l.path, NewPos(g))]

\* the part of LightRay::Update after the two guards
LiveStep(l, dt, r_s) ==
    LET g == Geodesic(Radius(l), Angle(l), PolarVelocity(l), dt, r_s)
    IN  [l EXCEPT !.r = g.r, !.phi = g.phi, !.pos = NewPos(g),
                  !.dir = Vector2Normalize(VelocityCart(g)),
                  !.path = PushBack(l.path, NewPos(g))]

\* r and phi are assigned before either guard returns
Frozen(l) == [l EXCEPT !.r = Radius(l), !.phi = Angle(l)]

\* which way LightRay::Update leaves
Branch(l, r_s) ==
    IF Radius(l) <= 0 THEN "singular"
    ELSE IF Radius(l) < r_s THEN "absorbed"
    ELSE "live"

\* Update without the absorption test
LightRayUpdate_NoAbsorb(l, dt, r_s) ==
    IF Radius(l) <= 0 THEN Frozen(l)
    ELSE LiveStep(l, dt, r_s)

\* Update without the zero-radius test
LightRayUpdate_NoGuard(l, dt, r_s) ==
    IF Radius(l) < r_s THEN Frozen(l)
    ELSE LiveStep(l, dt, r_s)

\* Update that records the position of an absorbed ray
LightRayUpdate_PushAbsorbed(l, dt, r_s) ==
    IF Radius(l) <= 0 THEN Frozen(l)
    ELSE IF Radius(l) < r_s THEN [Frozen(l) EXCEPT !.path = PushBack(l.path, l.pos)]
    ELSE LiveStep(l, dt, r_s)

\* LightRay::Update(dt, r_s)
LightRayUpdate(l, dt, r_s) ==
    IF Radius(l) <= 0 THEN Frozen(l)
    ELSE IF Radius(l) < r_s THEN Frozen(l)
    ELSE LiveStep(l, dt, r_s)

\* what one LightRay::Update call did, kept for the properties below
NoUpdate ==
    [exit |-> "none", dt |-> 0, pos_in |-> <<0, 0>>, dir_in |-> <<0, 0>>,
     dr_dt0 |-> 0, dphi_dt0 |-> 0, dr_dt |-> 0, dphi_dt |-> 0,
     prev |-> "none", prev_dr_dt |-> 0, prev_dphi_dt |-> 0]

UpdateInfo(l, dt, r_s, u) ==
    LET b == Branch(l, r_s)
        v == PolarVelocity(l)
        g == Geodesic(Radius(l), Angle(l), v, dt, r_s)
    IN  [exit |-> b, dt |-> dt, pos_in |-> l.pos, dir_in |-> l.dir,
         dr_dt0 |-> IF b = "live" THEN v.dr_dt ELSE 0,
         dphi_dt0 |-> IF b = "live" THEN v.dphi_dt ELSE 0,
         dr_dt |-> IF b = "live" THEN g.dr_dt ELSE 0,
         dphi_dt |-> IF b = "live" THEN g.dphi_dt ELSE 0,
         prev |-> u.exit, prev_dr_dt |-> u.dr_dt, prev_dphi_dt |-> u.dphi_dt]

(***************************************************************************)
(* Draw: the grey level of path segment i of a path of N points.           *)
(***************************************************************************)
\* static_cast<unsigned char>(float): truncation; a value outside 0..255 is
\* undefined behaviour, builds either keep the low byte or clamp
UnsignedChar(q, cv) ==
    IF 0 <= q /\ q <= 255 THEN q
    ELSE IF cv = "wrap" THEN q % 256
    ELSE IF q < 0 THEN 0 ELSE 255

\* 255 * (t - 1.0f) with t = i / (N - 1), truncated towards zero
Shade(i, N, cv) ==
    LET num == 255 * (i - (N - 1))
        q == Sgn(num) * (Abs(num) \div (N - 1))
    IN  UnsignedChar(q, cv)

Fade(path, cv) == [k \in 1..(Len(path) - 1) |-> Shade(k - 1, Len(path), cv)]

(***************************************************************************)
(* Simulation of the geodesic revision: constructor, Update, Draw, Run.    *)
(***************************************************************************)
SeedIdle == [pc |-> "idle", width |-> 0, height |-> 0, numRays |-> 0, step |-> 0, i |-> 0]

Init ==
    /\ \E m \in Masses : blackHole = BlackHole(<<0, 0>>, m)
    /\ \E p \in StartPositions, d \in StartDirections : lr = LightRay(p, d) /\ pos0 = p
    /\ nlive = 0
    /\ upd = NoUpdate
    /\ pc = 0
    /\ closed = FALSE
    /\ frame = 0
    /\ calls = <<>>
    /\ conv \in Conversions
    /\ shades = <<>>
    /\ blackHoles = <<>>
    /\ lightRays = <<>>
    /\ seed = SeedIdle

\* a loop body that draws before it updates
RunBody_DrawFirst == <<"Draw", "Update">>

\* the statements of the body of Run's loop, in order
RunBody == <<"Update", "Draw">>

\* Simulation::Update(dt)
SimulationUpdate(dt) ==
    /\ lr' = LightRayUpdate(lr, dt, blackHole.r_s)
    /\ upd' = UpdateInfo(lr, dt, blackHole.r_s, upd)
    /\ nlive' = IF Radius(lr) > 0 /\ Radius(lr) >= blackHole.r_s THEN nlive + 1 ELSE nlive
    /\ frame' = frame + 1
    /\ UNCHANGED <<blackHole, pos0, shades>>

\* Simulation::Draw()
SimulationDraw ==
    /\ shades' = Fade(lr.path, conv)
    /\ UNCHANGED <<blackHole, lr, pos0, nlive, upd, frame>>

\* while (!WindowShouldClose()) leaves the loop
RunClose ==
    /\ ~closed
    /\ pc = 0
    /\ closed' = TRUE
    /\ UNCHANGED <<blackHole, lr, pos0, nlive, upd, pc, frame, calls, conv, shades>>
    /\ UNCHANGED seedVars

\* Update(GetFrameTime() * TIME_MULTIPLIER)
RunUpdate ==
    /\ ~closed
    /\ RunBody[pc + 1] = "Update"
    /\ frame < MaxFrames
    /\ \E ft \in FrameTimes : SimulationUpdate(ft * TIME_MULTIPLIER)
    /\ pc' = (pc + 1) % Len(RunBody)
    /\ calls' = Append(calls, "Update")
    /\ UNCHANGED <<closed, conv>>
    /\ UNCHANGED seedVars

\* Draw()
RunDraw ==
    /\ ~closed
    /\ RunBody[pc + 1] = "Draw"
    /\ SimulationDraw
    /\ pc' = (pc + 1) % Len(RunBody)
    /\ calls' = Append(calls, "Draw")
    /\ UNCHANGED <<closed, conv>>
    /\ UNCHANGED seedVars

Next == RunClose \/ RunUpdate \/ RunDraw

Spec == Init /\ [][Next]_vars

(***************************************************************************)
(* Draw on its own: a ray whose path has N points is about to be drawn.    *)
(* The ray is the one constructed at (-3, 0) heading (1, 0) after N - 1    *)
(* frames of frame time 0, which leave it where it is.                     *)
(***************************************************************************)
DrawRay(N) ==
    LET b == LiveStep(LightRay(<<-3 * FP, 0>>, <<FP, 0>>), 0, BlackHole(<<0, 0>>, SagAMass).r_s)
    IN  [b EXCEPT !.path = [k \in 1..N |-> b.pos]]

InitDraw ==
    /\ blackHole = BlackHole(<<0, 0>>, SagAMass)
    /\ \E N \in 2..MaxDrawPoints :
          /\ lr = DrawRay(N)
          /\ nlive = N - 1
          /\ frame = N - 1
          /\ calls = [k \in 1..(2 * N - 3) |-> RunBody[((k - 1) % 2) + 1]]
    /\ pos0 = lr.pos
    /\ upd = UpdateInfo(lr, 0, blackHole.r_s, NoUpdate)
    /\ pc = 1
    /\ closed = FALSE
    /\ conv \in Conversions
    /\ shades = <<>>
    /\ blackHoles = <<>>
    /\ lightRays = <<>>
    /\ seed = SeedIdle

NextDraw == RunDraw

SpecDraw == InitDraw /\ [][NextDraw]_vars

(***************************************************************************)
(* src/main.cpp Simulation::Init(width, height), statement by statement.   *)
(***************************************************************************)
numRays == 20

\* LightRay of src/main.cpp: pos, dir, path
MainLightRay(position, direction) ==
    [pos |-> position, dir |-> direction, path |-> PushBack(<<>>, position)]

InitSeed ==
    /\ blackHole = BlackHole(<<0, 0>>, SagAMass)
    /\ lr = LightRay(<<0, 0>>, <<FP, 0>>)
    /\ pos0 = <<0, 0>>
    /\ nlive = 0
    /\ upd = NoUpdate
    /\ pc = 0
    /\ closed = FALSE
    /\ frame = 0
    /\ calls = <<>>
    /\ conv = "wrap"
    /\ shades = <<>>
    /\ blackHoles = <<>>
    /\ lightRays = <<>>
    /\ \E w \in Widths, h \in 1..MaxHeight :
          seed = [pc |-> "start", width |-> w, height |-> h, numRays |-> 0, step |-> 0, i |-> 0]

\* BlackHole SagA(...); blackHoles.push_back(SagA); numRays; step; i = 0
SeedBlackHole ==
    /\ seed.pc = "start"
    /\ blackHoles' = PushBack(blackHoles,
                        BlackHole(<<ToFloat(FDiv(seed.width * FP, 2 * FP)),
                                    ToFloat(FDiv(seed.height * FP, 2 * FP))>>, SagAMass))
    /\ seed' = [seed EXCEPT !.pc = "loop", !.numRays = numRays,
                            !.step = seed.height \div numRays, !.i = 0]
    /\ UNCHANGED lightRays
    /\ UNCHANGED runVars

\* one iteration of for (int i = 0; i < height; i += step)
SeedRay ==
    /\ seed.pc = "loop"
    /\ seed.i < seed.height
    /\ Len(lightRays) < MaxSeedRays
    /\ lightRays' = PushBack(lightRays,
                        MainLightRay(<<0, ToFloat((seed.i + seed.step \div 2) * FP)>>, <<FP, 0>>))
    /\ seed' = [seed EXCEPT !.i = seed.i + seed.step]
    /\ UNCHANGED blackHoles
    /\ UNCHANGED runVars

\* the loop condition fails, Init returns
SeedReturn ==
    /\ seed.pc = "loop"
    /\ ~(seed.i < seed.height)
    /\ seed' = [seed EXCEPT !.pc = "done"]
    /\ UNCHANGED <<blackHoles, lightRays>>
    /\ UNCHANGED runVars

NextSeed == SeedBlackHole \/ SeedRay \/ SeedReturn

SpecSeed == InitSeed /\ [][NextSeed]_vars

(***************************************************************************)
(* Properties.                                                             *)
(***************************************************************************)
IsPrefix(s, t) == Len(s) <= Len(t) /\ SubSeq(t, 1, Len(s)) = s

\* C1: once an Update call has found the ray below the Schwarzschild radius,
\* every later step leaves pos, dir and the path length as they are, and the
\* next Update call finds the ray absorbed again.
AbsorptionIrreversible ==
    [][upd.exit = "absorbed" =>
          /\ lr'.pos = lr.pos
          /\ lr'.dir = lr.dir
          /\ Len(lr'.path) = Len(lr.path)
          /\ upd'.exit = "absorbed"]_vars

\* a ray that was live, crossed the horizon, and was found absorbed twice running
AbsorbedTwice ==
    /\ upd.exit = "absorbed"
    /\ upd.prev = "absorbed"
    /\ upd.dt > 0
    /\ nlive >= 1

\* C2: the path holds one point per live Update call (0 < radius, r_s <= radius
\* when the call starts) plus the point of construction; frozen calls add none.
PathGrowth == Len(lr.path) = nlive + 1

\* two live calls followed by a call that found the ray frozen
GrownThenFrozen ==
    /\ nlive >= 2
    /\ frame > nlive
    /\ Len(lr.path) = 3

\* C3: a ray at the black hole's position is left as it is by every step, and an
\* Update call made there returns at the zero-radius test, before any division.
ZeroRadiusNoOp ==
    [][lr.pos = blackHole.pos =>
          /\ lr'.pos = lr.pos
          /\ lr'.dir = lr.dir
          /\ lr'.path = lr.path
          /\ (frame' # frame => upd'.exit = "singular")]_vars

\* an Update call with dt > 0 and r_s = 0 on a ray at the black hole's position
ZeroRadiusCall ==
    /\ lr.pos = blackHole.pos
    /\ blackHole.r_s = 0
    /\ upd.exit = "singular"
    /\ upd.dt > 0

\* C4: the field r of a light ray is never negative.
RadiusNonNegative == lr.r >= 0

PathAppendOnly ==
    /\ [](lr.path[1] = pos0)
    /\ [][IsPrefix(lr.path, lr'.path)]_vars

\* a path of three points whose newest point is not the first
PathGrown ==
    /\ Len(lr.path) >= 3
    /\ lr.path[Len(lr.path)] # pos0

\* C7: the calls Run makes are Update, Draw, Update, Draw, ...; the loop ends
\* only at the top of a frame, after whole frames.
RunOrdering ==
    /\ \A k \in 1..Len(calls) : calls[k] = IF k % 2 = 1 THEN "Update" ELSE "Draw"
    /\ closed => (pc = 0 /\ Len(calls) % 2 = 0)

\* the window was closed after two whole frames
ClosedAfterFrames ==
    /\ closed
    /\ Len(calls) >= 4

\* C8: the grey levels Draw gives the segments lie in 0..255, do not decrease
\* from the oldest segment to the newest, and the newest segment is brighter
\* than the oldest.
FadeBlackToWhite ==
    /\ \A k \in 1..Len(shades) : shades[k] \in 0..255
    /\ \A j, k \in 1..Len(shades) : j <= k => shades[j] <= shades[k]
    /\ Len(shades) >= 2 => shades[1] < shades[Len(shades)]

\* C9: Init never holds more than numRays rays, and returns with one black
\* hole and numRays rays, each at x = 0 heading (1, 0).
SeedsTwentyRays ==
    /\ Len(lightRays) <= numRays
    /\ seed.pc = "done" =>
          /\ Len(blackHoles) = 1
          /\ Len(lightRays) = numRays
          /\ \A k \in 1..Len(lightRays) :
                lightRays[k].pos[1] = 0 /\ lightRays[k].dir = <<FP, 0>>

\* C10: the path is never empty and its last point is the ray's position.
PathEndsAtPos ==
    /\ Len(lr.path) >= 1
    /\ lr.path[Len(lr.path)] = lr.pos

\* a ray that moved and was then left alone by a frozen call
MovedThenFrozen ==
    /\ nlive >= 1
    /\ frame > nlive
    /\ lr.pos # pos0

====
